---- MODULE Spec2Model ----
(***************************************************************************)
(* State-machine model of the watering controller: System (App.py), Plant  *)
(* and Pump (Plant.py), Optimisation (Optimisation.py) and the call sites  *)
(* of the weather provider (Weather.py).                                    *)
(*                                                                         *)
(* Concurrency: the coroutines of System and Optimisation run on one       *)
(* asyncio event loop, so one action is one coroutine segment between two  *)
(* awaits.  Every Pump.turn_on starts an operating-system thread; its      *)
(* steps interleave freely with the coroutine segments.                    *)
(*                                                                         *)
(* Numbers: every moisture-scale quantity is an integer number of          *)
(* hundredths (Scale units per 1.0), so that 0.5, 0.1 and the percentage   *)
(* products are exact; floating-point rounding is not modelled.            *)
(***************************************************************************)
EXTENDS Integers, Sequences, FiniteSets, TLC

\* ---------------------------------------------------------------- bounds
MaxEnable == 1           \* enable_system calls in one behaviour of Spec
MaxWaterCalls == 1       \* external water_plant calls in one behaviour of Spec
MaxWaterCallers == 2     \* external water_plant calls in one behaviour of SpecWater
MaxSamples == 3          \* length of a sample sequence given to evaluate_optimisation

\* ------------------------------------------------------ program constants
Scale == 100                   \* model units per 1.0 of soil moisture
WaterIncrement == 50           \* Pump.add_water: += 0.5
PumpClampMax == 100            \* Pump.add_water: clamp at 1.0
PumpSubInterval == 2           \* Pump._run_pump: time.sleep(2)
data_points_required == 10     \* Optimisation.__init__
ToleranceDen == 20             \* threshold_tolerance 0.05 = 1/20

\* One slot per coroutine that can exist: the run_loop task of initialize,
\* one per enable_system call and one per external water_plant call.
MaxOf(a, b) == IF a >= b THEN a ELSE b
TaskIds == 1..(1 + MaxOf(MaxEnable + MaxWaterCalls, MaxWaterCallers))

\* -------------------------------------------------------- Python values
\* Values whose Python type matters are tagged records.
PyNone == [type |-> "None", date |-> 0, hour |-> 0]
Tuple2(a, b) == [type |-> "tuple", a |-> a, b |-> b]

\* A datetime; Today is the date of every clock reading and cached sunrise
\* or sunset, and datetime.strptime(s, '%H:%M') yields the date 1900-01-01.
Date1900 == 0
Today == 1
Hours == {12, 20}
DateTime(d, h) == [type |-> "datetime", date |-> d, hour |-> h]
DtLess(x, y) == x.date < y.date \/ (x.date = y.date /\ x.hour < y.hour)

now_AEST(h) == DateTime(Today, h)
strptime_HM(h) == DateTime(Date1900, h)

\* ---------------------------------------------------------- configuration
\* The settings System.fetch_settings applies; names are the attribute names.
\* Percentages and levels are whole numbers, water_cycle_length is seconds,
\* the operating hours are whole hours.
DefaultSettings ==
  [ operating_settings_desired_moisture_level |-> 100,
    operating_settings_water_threshold |-> 20,
    operating_hours_mode |-> "auto",
    operating_hours_start |-> 6,
    operating_hours_end |-> 18,
    weather_detection_enabled |-> TRUE,
    weather_detection_mode |-> "AND",
    weather_detection_postpone_percentage |-> 35,
    weather_detection_postpone_mm |-> 5,
    danger_mode_enabled |-> TRUE,
    danger_mode_level |-> 10,
    danger_mode_bypass_enabled |-> TRUE,
    danger_mode_bypass_water_percentage |-> 40,
    desired_soil_moisture |-> 100,
    water_cycle_length |-> 5,
    system_enabled |-> FALSE ]

\* The settings records the store may hold when initialize() runs.
StoredSettings ==
  { [DefaultSettings EXCEPT !.system_enabled = TRUE,
                            !.desired_soil_moisture = 0,
                            !.water_cycle_length = 3],
    [DefaultSettings EXCEPT !.system_enabled = TRUE,
                            !.operating_hours_mode = "manual",
                            !.danger_mode_bypass_enabled = FALSE,
                            !.desired_soil_moisture = 0,
                            !.water_cycle_length = 2],
    [DefaultSettings EXCEPT !.operating_hours_mode = "always",
                            !.weather_detection_mode = "OR",
                            !.desired_soil_moisture = 0,
                            !.water_cycle_length = 2] }

\* ------------------------------------------------------- weather provider
\* What the provider's cache and refresh can deliver: a weather record, or
\* nothing (no cached record and the refresh fails).
WeatherRecord(mm, prob) ==
  [available |-> TRUE, mmOfRainfall |-> mm, rainfallProbability |-> prob,
   sunrise |-> 6, sunset |-> 18]
NoWeather ==
  [available |-> FALSE, mmOfRainfall |-> 0, rainfallProbability |-> 0,
   sunrise |-> 0, sunset |-> 0]
WeatherStates == { WeatherRecord(6, 40), WeatherRecord(6, 10), NoWeather }

\* Weather.get_sunrise_sunset_times is declared `async def`: the value it
\* returns once awaited.
get_sunrise_sunset_times(wx) ==
  IF wx.available
  THEN Tuple2(now_AEST(wx.sunrise), now_AEST(wx.sunset))
  ELSE Tuple2(PyNone, PyNone)

\* Weather.get_precipitation_data is declared `async def`: the value it
\* returns once awaited.
get_precipitation_data(wx) ==
  IF wx.available
  THEN Tuple2(wx.mmOfRainfall, wx.rainfallProbability)
  ELSE PyNone

\* Calling an `async def` function without `await` yields a coroutine object
\* wrapping the eventual result.
CallWithoutAwait(result) == [type |-> "coroutine", result |-> result]

\* Python's `a, b = v`: a 2-tuple unpacks; a coroutine object and None are
\* not iterable and raise TypeError.
CanUnpack2(v) == v.type = "tuple"

\* ------------------------------------------------- System.monitor_plant
\* What one evaluation of monitor_plant decides.
Raise == [kind |-> "raise", target |-> 0]
Water(target) == [kind |-> "water", target |-> target]
Postpone == [kind |-> "postpone", target |-> 0]
SkipHours == [kind |-> "skip_hours", target |-> 0]
NoAction == [kind |-> "no_action", target |-> 0]

\* triggerAt taken to be the threshold percentage itself, not that share of
\* the desired moisture.
TriggerAt_percentage_only(c) == c.operating_settings_water_threshold * Scale

\* triggerAt, in model units: (water_threshold / 100) * desired moisture.
TriggerAt(c) ==
  c.operating_settings_water_threshold * c.operating_settings_desired_moisture_level

\* (danger_mode_level / 100) * desired moisture, in model units.
DangerAt(c) ==
  c.danger_mode_level * c.operating_settings_desired_moisture_level

DangerApplies(c, level) ==
  c.danger_mode_enabled /\ c.danger_mode_bypass_enabled /\ level <= DangerAt(c)

\* The rain test of the configured weather_detection_mode; a mode that is
\* neither "AND" nor "OR" enters neither branch.
RainCondition(c, mm, prob) ==
  \/ /\ c.weather_detection_mode = "AND"
     /\ mm >= c.weather_detection_postpone_mm
     /\ prob >= c.weather_detection_postpone_percentage
  \/ /\ c.weather_detection_mode = "OR"
     /\ \/ mm >= c.weather_detection_postpone_mm
        \/ prob >= c.weather_detection_postpone_percentage

\* monitor_plant with the two operating-hours returns (the `auto` and the
\* `manual` test) left out.
monitor_plant_without_hours_gate(c, now, sunCall, rainCall, hasPlant, level) ==
  IF ~CanUnpack2(sunCall) THEN Raise
  ELSE IF ~CanUnpack2(rainCall) THEN Raise
  ELSE IF ~hasPlant THEN Raise
  ELSE
    LET amount_of_rainfall == rainCall.a
        probability_of_rain == rainCall.b
        mode == c.operating_hours_mode
    IN
    IF mode \in {"auto", "manual"} /\ DangerApplies(c, level)
      THEN Water(c.danger_mode_bypass_water_percentage * Scale)
    ELSE IF level <= TriggerAt(c)
      THEN IF c.weather_detection_enabled
              /\ RainCondition(c, amount_of_rainfall, probability_of_rain)
             THEN IF DangerApplies(c, level)
                    THEN Water(c.danger_mode_bypass_water_percentage * Scale)
                    ELSE Postpone
             ELSE Water(TriggerAt(c))
    ELSE NoAction

\* Whether an evaluation of monitor_plant gets as far as computing
\* triggerAt and the danger level: the two unpackings and the moisture read
\* come first.
ComputesLevels(sunCall, rainCall, hasPlant) ==
  CanUnpack2(sunCall) /\ CanUnpack2(rainCall) /\ hasPlant

\* The operating-hours lines of monitor_plant with the `return` that
\* follows the danger-mode water_plant call left out.
HoursLines_without_return(c, now, sunCall, level) ==
  LET mode == c.operating_hours_mode
  IN
  IF mode \in {"auto", "manual"}
    THEN IF DangerApplies(c, level)
           THEN [calls |->
                   <<Water(c.danger_mode_bypass_water_percentage * Scale)>>,
                 returned |-> FALSE]
         ELSE IF mode = "auto"
                 /\ \/ sunCall.a.type # "datetime"
                    \/ DtLess(now, sunCall.a)
                    \/ DtLess(sunCall.b, now)
           THEN [calls |-> <<>>, returned |-> TRUE]
         ELSE IF mode = "manual"
                 /\ \/ DtLess(now, strptime_HM(c.operating_hours_start))
                    \/ DtLess(strptime_HM(c.operating_hours_end), now)
           THEN [calls |-> <<>>, returned |-> TRUE]
         ELSE [calls |-> <<>>, returned |-> FALSE]
    ELSE [calls |-> <<>>, returned |-> FALSE]

\* The operating-hours lines of monitor_plant, statement by statement: the
\* calls and writes they make, in order, and whether they leave
\* monitor_plant (by `return`, or by the exception of comparing with None).
HoursLines(c, now, sunCall, level) ==
  LET mode == c.operating_hours_mode
  IN
  IF mode \in {"auto", "manual"}
    THEN IF DangerApplies(c, level)
           THEN [calls |->
                   <<Water(c.danger_mode_bypass_water_percentage * Scale)>>,
                 returned |-> TRUE]
         ELSE IF mode = "auto"
                 /\ \/ sunCall.a.type # "datetime"
                    \/ DtLess(now, sunCall.a)
                    \/ DtLess(sunCall.b, now)
           THEN [calls |-> <<>>, returned |-> TRUE]
         ELSE IF mode = "manual"
                 /\ \/ DtLess(now, strptime_HM(c.operating_hours_start))
                    \/ DtLess(strptime_HM(c.operating_hours_end), now)
           THEN [calls |-> <<>>, returned |-> TRUE]
         ELSE [calls |-> <<>>, returned |-> FALSE]
    ELSE [calls |-> <<>>, returned |-> FALSE]

\* The lines of monitor_plant from the moisture test on: the calls and
\* writes they make, in order.
WateringLines(c, rainCall, level) ==
  IF level <= TriggerAt(c)
    THEN IF c.weather_detection_enabled
            /\ RainCondition(c, rainCall.a, rainCall.b)
           THEN IF DangerApplies(c, level)
                  THEN <<Water(c.danger_mode_bypass_water_percentage * Scale)>>
                  ELSE <<Postpone>>
           ELSE <<Water(TriggerAt(c))>>
    ELSE <<>>

\* The water_plant calls and postponedWater writes one evaluation of
\* monitor_plant makes, in order, once the provider's results are unpacked.
monitor_plant_calls(c, now, sunCall, rainCall, level) ==
  LET hours == HoursLines(c, now, sunCall, level)
  IN IF hours.returned
       THEN hours.calls
       ELSE hours.calls \o WateringLines(c, rainCall, level)

\* The record of one monitor_plant evaluation with outcome o.
TickRecord(c, h, wx, level, computes, o, before, after) ==
  [evaluated |-> TRUE, now |-> h, wx |-> wx, level |-> level,
   levels |-> computes,
   triggerAt |-> IF computes THEN TriggerAt(c) ELSE 0,
   dangerAt |-> IF computes THEN DangerAt(c) ELSE 0,
   calls |-> IF computes
               THEN monitor_plant_calls(c, now_AEST(h),
                                        get_sunrise_sunset_times(wx),
                                        get_precipitation_data(wx), level)
               ELSE <<>>,
   outcome |-> o, before |-> before, after |-> after]

\* monitor_plant, statement by statement.  sunCall and rainCall are the
\* values of the call expressions on its second and third lines; hasPlant
\* says whether self.plant is set; level is the plant's moisture.
monitor_plant(c, now, sunCall, rainCall, hasPlant, level) ==
  IF ~CanUnpack2(sunCall) THEN Raise
  ELSE IF ~CanUnpack2(rainCall) THEN Raise
  ELSE IF ~hasPlant THEN Raise
  ELSE
    LET sunrise_time == sunCall.a
        sunset_time == sunCall.b
        amount_of_rainfall == rainCall.a
        probability_of_rain == rainCall.b
        mode == c.operating_hours_mode
    IN
    IF mode \in {"auto", "manual"} /\ DangerApplies(c, level)
      THEN Water(c.danger_mode_bypass_water_percentage * Scale)
    ELSE IF mode = "auto" /\ sunrise_time.type # "datetime" THEN Raise
    ELSE IF mode = "auto"
            /\ (DtLess(now, sunrise_time) \/ DtLess(sunset_time, now))
      THEN SkipHours
    ELSE IF mode = "manual"
            /\ \/ DtLess(now, strptime_HM(c.operating_hours_start))
               \/ DtLess(strptime_HM(c.operating_hours_end), now)
      THEN SkipHours
    ELSE IF level <= TriggerAt(c)
      THEN IF c.weather_detection_enabled
              /\ RainCondition(c, amount_of_rainfall, probability_of_rain)
             THEN IF DangerApplies(c, level)
                    THEN Water(c.danger_mode_bypass_water_percentage * Scale)
                    ELSE Postpone
             ELSE Water(TriggerAt(c))
    ELSE NoAction

\* ------------------------------------------------------------ Optimisation
\* System defines no add_log_entry method, so every
\* self.system.add_log_entry(...) raises AttributeError.
System_has_add_log_entry == FALSE

\* Exact rationals: n/d is the pair <<n, d>> in lowest terms, d > 0.
RECURSIVE Gcd(_, _)
Gcd(a, b) == IF b = 0 THEN a ELSE Gcd(b, a % b)
Abs(x) == IF x < 0 THEN -x ELSE x
Ratio(n, d) == LET g == Gcd(Abs(n), d) IN <<n \div g, d \div g>>
RatioLeq(x, y) == x[1] * y[2] <= y[1] * x[2]
RatioAbsDiff(x, y) == Ratio(Abs(x[1] * y[2] - y[1] * x[2]), x[2] * y[2])

RECURSIVE SumRatios(_)
SumRatios(data) ==
  IF data = <<>> THEN <<0, 1>>
  ELSE LET h == Head(data)
           r == SumRatios(Tail(data))
       IN Ratio(h[1] * r[2] + r[1] * h[2], h[2] * r[2])

\* sum(data) / len(data), for a non-empty sequence.
Average(data) ==
  LET total == SumRatios(data) IN Ratio(total[1], total[2] * Len(data))

\* threshold_tolerance * average
Tolerated(average) == Ratio(average[1], average[2] * ToleranceDen)

\* The test with any() in place of all(): one deviation within the
\* tolerance is enough.
IsConsistent_any(data, average) ==
  \E i \in 1..Len(data) :
    RatioLeq(RatioAbsDiff(data[i], average), Tolerated(average))

\* The test of evaluate_optimisation: all deviations within the tolerance.
IsConsistent(data, average) ==
  \A i \in 1..Len(data) :
    RatioLeq(RatioAbsDiff(data[i], average), Tolerated(average))

NotSaved == [valid |-> FALSE, value |-> <<0, 1>>]

\* Optimisation.evaluate_optimisation on the sample sequence `data`, with
\* `store` the validated ratio held by the store.  The division raises on
\* an empty sequence; save_optimisation_data upserts the average; the log
\* calls that follow raise when System has no add_log_entry.
evaluate_optimisation(data, store) ==
  IF Len(data) = 0
    THEN [data |-> data, store |-> store, raised |-> TRUE]
  ELSE LET average_water_per_percent == Average(data)
       IN IF IsConsistent(data, average_water_per_percent)
            THEN [data |-> data,
                  store |-> [valid |-> TRUE,
                             value |-> average_water_per_percent],
                  raised |-> ~System_has_add_log_entry]
            ELSE [data |-> data, store |-> store,
                  raised |-> ~System_has_add_log_entry]

\* collect_data with the test `increase >= 0`: a cycle without any increase
\* is recorded as a sample too (as the ratio of the cycle length to one unit).
collect_data_zero_increase_recorded(data, collected, store, water_cycle_length, initial, final) ==
  LET increase == final - initial
  IN IF increase >= 0
       THEN [data |-> Append(data, Ratio(water_cycle_length * Scale,
                                         IF increase = 0 THEN 1 ELSE increase)),
             collected |-> collected + 1, store |-> store,
             raised |-> ~System_has_add_log_entry, evaluated |-> FALSE]
       ELSE [data |-> data, collected |-> collected, store |-> store,
             raised |-> ~System_has_add_log_entry, evaluated |-> FALSE]

\* Optimisation.collect_data after its two sleeps: `initial` was read before
\* them, `final` after.  water_per_percent = water_cycle_length / increase.
\* The log call after the append raises before the count is compared with
\* data_points_required when System has no add_log_entry.
collect_data(data, collected, store, water_cycle_length, initial, final) ==
  LET increase == final - initial
  IN IF increase > 0
       THEN LET appended ==
                  Append(data, Ratio(water_cycle_length * Scale, increase))
            IN IF ~System_has_add_log_entry
                 THEN [data |-> appended, collected |-> collected + 1,
                       store |-> store, raised |-> TRUE, evaluated |-> FALSE]
               ELSE IF collected + 1 >= data_points_required
                 THEN LET e == evaluate_optimisation(appended, store)
                      IN [data |-> e.data, collected |-> collected + 1,
                          store |-> e.store, raised |-> e.raised,
                          evaluated |-> TRUE]
               ELSE [data |-> appended, collected |-> collected + 1,
                     store |-> store, raised |-> FALSE, evaluated |-> FALSE]
       ELSE [data |-> data, collected |-> collected, store |-> store,
             raised |-> ~System_has_add_log_entry, evaluated |-> FALSE]

\* ------------------------------------------------------------------ state
VARIABLES
  status,                      \* System.status
  enabled,                     \* System.enabled: "unset", "True" or "False"
  system_enabled,              \* System.system_enabled
  cancelRequested,             \* System.cancelRequested
  cfg,                         \* the settings attributes of System
  plant,                       \* whether System.plant is set
  soil_moisture_level,         \* Plant.soil_moisture_level, model units
  is_on,                       \* Pump.is_on
  cancel_requested,            \* Pump.cancel_requested
  thread,                      \* the _run_pump thread started by each task
  task,                        \* the coroutines: run_loop tasks, water_plant calls
  enablePending,               \* enable_system() calls awaiting the store
  enableCalls,                 \* enable_system() calls made so far
  waterCalls,                  \* external water_plant() calls made so far
  optimisation_data,           \* Optimisation.optimisation_data
  optimisation_data_collected, \* System.optimisation_data_collected
  saved,                       \* the validated ratio held by the store
  postponedWater,              \* System.postponedWater
  tick,                        \* the monitor_plant evaluation of the last step
  lastRet,                     \* the water_plant return of the last step
  lastLoop,                    \* the run_loop exit of the last step
  lastCollect,                 \* the collect_data call of the last step
  lastEval,                    \* the direct evaluate_optimisation call made
  lastApply,                   \* the direct apply_optimisation call made
  race                         \* one depletion tick and one pump increment, statement by statement

vars ==
  <<status, enabled, system_enabled, cancelRequested, cfg, plant,
    soil_moisture_level, is_on, cancel_requested, thread, task, enablePending,
    enableCalls, waterCalls, optimisation_data,
    optimisation_data_collected, saved, postponedWater, tick, lastRet,
    lastLoop, lastCollect, lastEval, lastApply,
                 race>>

NoThread == [pc |-> "none", n |-> 0, duration |-> 0]
NoTask ==
  [kind |-> "none", pc |-> "idle", target |-> 0, current_moisture |-> 0,
   initial_moisture |-> 0, cycles |-> 0, cancelSeen |-> FALSE]
NotPostponed ==
  [postponed |-> FALSE, postponedAt |-> PyNone, postponedBy |-> "None"]
NoTick ==
  [evaluated |-> FALSE, now |-> 0, wx |-> NoWeather, level |-> 0,
   levels |-> FALSE, triggerAt |-> 0, dangerAt |-> 0,
   calls |-> <<>>, outcome |-> [kind |-> "none", target |-> 0],
   before |-> NotPostponed, after |-> NotPostponed]
NoRet ==
  [how |-> "none", status |-> "INIT", enabled |-> "unset", pumpOn |-> FALSE,
   pumpCancel |-> FALSE, cancelSeen |-> FALSE, cycles |-> 0, target |-> 0,
   reading |-> 0]
NoLoop == [how |-> "none"]
NoCollect ==
  [called |-> FALSE, increase |-> 0, changed |-> FALSE, evaluated |-> FALSE,
   water_cycle_length |-> 0, current_moisture |-> 0, cycles |-> 0,
   data |-> <<>>, collected |-> 0]
NoEval ==
  [called |-> FALSE, data |-> <<>>, before |-> NotSaved, raised |-> FALSE]
NoApply ==
  [called |-> FALSE, target |-> 0, hadData |-> FALSE, cancelSeen |-> FALSE,
   how |-> "none", turn_ons |-> 0]
NoRace ==
  [start |-> 0, dep |-> "none", depValue |-> 0, inc |-> "none",
   incValue |-> 0, read |-> FALSE, reading |-> 0]

\* System.__init__
Init ==
  /\ status = "INIT"
  /\ enabled = "unset"
  /\ system_enabled = FALSE
  /\ cancelRequested = FALSE
  /\ cfg = DefaultSettings
  /\ plant = FALSE
  /\ soil_moisture_level = 0
  /\ is_on = FALSE
  /\ cancel_requested = FALSE
  /\ thread = [t \in TaskIds |-> NoThread]
  /\ task = [t \in TaskIds |-> NoTask]
  /\ enablePending = 0
  /\ enableCalls = 0
  /\ waterCalls = 0
  /\ optimisation_data = <<>>
  /\ optimisation_data_collected = 0
  /\ saved = NotSaved
  /\ postponedWater = NotPostponed
  /\ tick = NoTick
  /\ lastRet = NoRet
  /\ lastLoop = NoLoop
  /\ lastCollect = NoCollect
  /\ lastEval = NoEval
  /\ lastApply = NoApply
  /\ race = NoRace

\* ------------------------------------------------------------ operations
FreeSlots == {t \in TaskIds : task[t].kind = "none"}
FirstFree(t) == t \in FreeSlots /\ \A u \in FreeSlots : t <= u

\* asyncio.create_task(self.run_loop()): a new task, not yet run.
SpawnRunLoop(tasks, t) ==
  [tasks EXCEPT ![t] = [NoTask EXCEPT !.kind = "loop", !.pc = "loop_head"]]

\* The attributes disable_system reads and writes.
Sys ==
  [enabled |-> enabled, status |-> status, plant |-> plant, is_on |-> is_on,
   cancel_requested |-> cancel_requested]

\* Pump.cancel written as a toggle of the flag.
Pump_cancel_toggle(s) ==
  IF s.is_on THEN [s EXCEPT !.cancel_requested = ~s.cancel_requested] ELSE s

\* Pump.cancel
Pump_cancel(s) ==
  IF s.is_on THEN [s EXCEPT !.cancel_requested = TRUE] ELSE s

\* disable_system without its last two lines: the pump is not cancelled.
disable_system_without_cancel(s) ==
  [s EXCEPT !.enabled = "False", !.status = "DISABLED"]

\* System.disable_system
disable_system(s) ==
  LET d == [s EXCEPT !.enabled = "False", !.status = "DISABLED"]
  IN IF d.plant THEN Pump_cancel(d) ELSE d

SetSys(d) ==
  /\ enabled' = d.enabled
  /\ status' = d.status
  /\ cancel_requested' = d.cancel_requested

\* System.initialize, called once by main(): fetch_settings applies one of
\* the stored settings `records`; an enabled system starts the monitor loop; the plant
\* and the optimisation object are created.
Initialize(records) ==
  /\ ~plant
  /\ \E c \in records :
       /\ cfg' = c
       /\ system_enabled' = c.system_enabled
       /\ soil_moisture_level' = c.desired_soil_moisture * Scale
       /\ IF c.system_enabled
            THEN /\ enabled' = "True"
                 /\ status' = "IDLE"
                 /\ \E t \in TaskIds :
                      FirstFree(t) /\ task' = SpawnRunLoop(task, t)
            ELSE /\ status' = "DISABLED"
                 /\ UNCHANGED <<enabled, task>>
  /\ plant' = TRUE
  /\ is_on' = FALSE
  /\ cancel_requested' = FALSE
  /\ optimisation_data' = <<>>
  /\ UNCHANGED <<cancelRequested, thread, enablePending, enableCalls,
                 waterCalls, optimisation_data_collected, saved,
                 postponedWater, lastEval, lastApply,
                 race>>
  /\ tick' = NoTick
  /\ lastRet' = NoRet
  /\ lastLoop' = NoLoop
  /\ lastCollect' = NoCollect

\* System.enable_system up to its await of the settings store.
EnableSystemCall ==
  /\ plant
  /\ enableCalls < MaxEnable
  /\ enableCalls' = enableCalls + 1
  /\ system_enabled' = TRUE
  /\ status' = "IDLE"
  /\ enablePending' = enablePending + 1
  /\ UNCHANGED <<enabled, cancelRequested, cfg, plant, soil_moisture_level,
                 is_on, cancel_requested, thread, task, waterCalls,
                 optimisation_data, optimisation_data_collected,
                 saved, postponedWater, lastEval, lastApply,
                 race>>
  /\ tick' = NoTick
  /\ lastRet' = NoRet
  /\ lastLoop' = NoLoop
  /\ lastCollect' = NoCollect

\* System.enable_system after the store update: create the run_loop task.
EnableSystemResume ==
  /\ enablePending > 0
  /\ enablePending' = enablePending - 1
  /\ \E t \in TaskIds : FirstFree(t) /\ task' = SpawnRunLoop(task, t)
  /\ UNCHANGED <<status, enabled, system_enabled, cancelRequested, cfg,
                 plant, soil_moisture_level, is_on, cancel_requested, thread,
                 enableCalls, waterCalls, optimisation_data,
                 optimisation_data_collected, saved, postponedWater,
                 lastEval, lastApply,
                 race>>
  /\ tick' = NoTick
  /\ lastRet' = NoRet
  /\ lastLoop' = NoLoop
  /\ lastCollect' = NoCollect

\* System.disable_system called from outside.
DisableSystem ==
  /\ plant
  /\ SetSys(disable_system(Sys))
  /\ UNCHANGED <<system_enabled, cancelRequested, cfg, plant,
                 soil_moisture_level, is_on, thread, task, enablePending,
                 enableCalls, waterCalls, optimisation_data,
                 optimisation_data_collected, saved, postponedWater,
                 lastEval, lastApply,
                 race>>
  /\ tick' = NoTick
  /\ lastRet' = NoRet
  /\ lastLoop' = NoLoop
  /\ lastCollect' = NoCollect

\* The control surface's request_cancel(): sets System.cancelRequested.
RequestCancel ==
  /\ plant
  /\ ~cancelRequested
  /\ cancelRequested' = TRUE
  /\ UNCHANGED <<status, enabled, system_enabled, cfg, plant,
                 soil_moisture_level, is_on, cancel_requested, thread, task,
                 enablePending, enableCalls, waterCalls, optimisation_data,
                 optimisation_data_collected, saved, postponedWater,
                 lastEval, lastApply,
                 race>>
  /\ tick' = NoTick
  /\ lastRet' = NoRet
  /\ lastLoop' = NoLoop
  /\ lastCollect' = NoCollect

\* ------------------------------------------------------ System.water_plant
Targets == {1 * Scale}

\* water_plant returns, normally or through its except clause, leaving the
\* attributes d.  A call awaited by monitor_plant goes back to run_loop,
\* which sleeps check_rate and evaluates its loop condition again.
Finish(t, tk, how, d) ==
  /\ SetSys(d)
  /\ task' = [task EXCEPT ![t] =
                IF tk.kind = "loop"
                  THEN [NoTask EXCEPT !.kind = "loop", !.pc = "loop_head"]
                  ELSE NoTask]
  /\ thread' = [thread EXCEPT ![t] = NoThread]
  /\ lastRet' = [how |-> how, status |-> d.status, enabled |-> d.enabled,
                 pumpOn |-> d.is_on, pumpCancel |-> d.cancel_requested,
                 cancelSeen |-> tk.cancelSeen, cycles |-> tk.cycles,
                 target |-> tk.target, reading |-> soil_moisture_level]
  /\ UNCHANGED is_on

\* Pump.turn_on(duration): set the flags and start the _run_pump thread.
turn_on(t, duration) ==
  /\ is_on' = TRUE
  /\ cancel_requested' = FALSE
  /\ thread' = [thread EXCEPT ![t] =
                  [pc |-> "check", n |-> 0, duration |-> duration]]

\* The loop head of water_plant, run by task t whose record is tk, up to
\* its sleeps: the while test, the cancellation test and Pump.turn_on.
\* With no plant the moisture read raises and the except clause disables
\* the system.
WaterLoopHead(t, tk) ==
  IF ~plant
    THEN Finish(t, tk, "failed", disable_system(Sys))
  ELSE IF soil_moisture_level < tk.target
    THEN IF cancelRequested
           THEN Finish(t, tk, "cancelled", disable_system(Sys))
           ELSE /\ turn_on(t, cfg.water_cycle_length)
                /\ task' = [task EXCEPT ![t] =
                              [tk EXCEPT !.pc = "wp_sleep",
                                         !.cycles = tk.cycles + 1]]
                /\ UNCHANGED <<enabled, status>>
                /\ lastRet' = NoRet
  ELSE Finish(t, tk, "completed", Sys)

\* water_plant(target) awaited from outside, with a target of `targets`:
\* runs to its first sleep.  At most maxCalls such calls are made in one
\* behaviour.
WaterPlantCall(maxCalls, targets) ==
  /\ plant
  /\ waterCalls < maxCalls
  /\ waterCalls' = waterCalls + 1
  /\ \E t \in TaskIds, target \in targets :
       /\ FirstFree(t)
       /\ WaterLoopHead(t, [NoTask EXCEPT !.kind = "ext", !.target = target])
  /\ UNCHANGED <<system_enabled, cancelRequested, cfg, plant,
                 soil_moisture_level, enablePending, enableCalls,
                 optimisation_data, optimisation_data_collected, saved,
                 postponedWater, lastEval, lastApply,
                 race>>
  /\ tick' = NoTick
  /\ lastLoop' = NoLoop
  /\ lastCollect' = NoCollect

\* water_plant after sleep(water_cycle_length) and sleep(60).  The pump
\* thread this cycle started runs for less than water_cycle_length + 2
\* seconds, so it has ended.  Reads the moisture; at or above the target it
\* leaves the loop, otherwise it enters collect_data, whose first statement
\* reads the moisture again.
WaterWake(t) ==
  /\ task[t].pc = "wp_sleep"
  /\ thread[t].pc = "done"
  /\ LET tk == [task[t] EXCEPT !.cancelSeen = cancelRequested]
     IN IF soil_moisture_level >= tk.target
          THEN Finish(t, tk, "completed", Sys)
          ELSE /\ task' = [task EXCEPT ![t] =
                             [tk EXCEPT !.pc = "cd_sleep",
                                !.current_moisture = soil_moisture_level,
                                !.initial_moisture = soil_moisture_level]]
               /\ UNCHANGED <<enabled, status, cancel_requested, is_on,
                              thread>>
               /\ lastRet' = NoRet
  /\ UNCHANGED <<system_enabled, cancelRequested, cfg, plant,
                 soil_moisture_level, enablePending, enableCalls, waterCalls,
                 optimisation_data, optimisation_data_collected,
                 saved, postponedWater, lastEval, lastApply,
                 race>>
  /\ tick' = NoTick
  /\ lastLoop' = NoLoop
  /\ lastCollect' = NoCollect

\* collect_data after its sleeps, then back in water_plant: an exception
\* raised by collect_data reaches water_plant's except clause, which
\* disables the system; otherwise the while loop continues at its head.
CollectWake(t) ==
  /\ task[t].pc = "cd_sleep"
  /\ LET r == collect_data(optimisation_data, optimisation_data_collected,
                           saved, cfg.water_cycle_length,
                           task[t].initial_moisture, soil_moisture_level)
     IN /\ optimisation_data' = r.data
        /\ optimisation_data_collected' = r.collected
        /\ saved' = r.store
        /\ lastCollect' =
             [called |-> TRUE,
              increase |-> soil_moisture_level - task[t].initial_moisture,
              changed |-> \/ r.data # optimisation_data
                          \/ r.collected # optimisation_data_collected,
              evaluated |-> r.evaluated,
              water_cycle_length |-> cfg.water_cycle_length,
              current_moisture |-> task[t].current_moisture,
              cycles |-> task[t].cycles,
              data |-> optimisation_data,
              collected |-> optimisation_data_collected]
        /\ IF r.raised
             THEN Finish(t, task[t], "failed", disable_system(Sys))
             ELSE WaterLoopHead(t, task[t])
  /\ UNCHANGED <<system_enabled, cancelRequested, cfg, plant,
                 soil_moisture_level, enablePending, enableCalls, waterCalls,
                 postponedWater, lastEval, lastApply,
                 race>>
  /\ tick' = NoTick
  /\ lastLoop' = NoLoop

\* ------------------------------------------------------- Pump._run_pump
\* add_water's increment; the clamp is a separate statement.
add_water_increment(level) == level + WaterIncrement

\* add_water's clamp.
add_water_clamp(level) == IF level > PumpClampMax THEN PumpClampMax ELSE level

\* `if not self.cancel_requested:` of _run_pump, the test made after the
\* sub-interval's sleep.
ShouldAddWater_ignoring_cancel(cancelRequest) == TRUE

ShouldAddWater(cancelRequest) == ~cancelRequest

\* One evaluation of the while test of _run_pump, n sub-intervals having
\* elapsed, with the cancellation test that follows it.  When the loop ends
\* (the test fails, or cancellation sets is_on to False and breaks), the
\* thread calls self.turn_off() and ends.
PumpCheck(t) ==
  /\ thread[t].pc = "check"
  /\ IF /\ is_on
        /\ PumpSubInterval * thread[t].n < thread[t].duration
        /\ ~cancel_requested
       THEN /\ thread' = [thread EXCEPT ![t].pc = "sleep"]
            /\ UNCHANGED is_on
       ELSE /\ is_on' = FALSE
            /\ thread' = [thread EXCEPT ![t] =
                            [pc |-> "done", n |-> 0, duration |-> 0]]
  /\ UNCHANGED <<status, enabled, system_enabled, cancelRequested, cfg, plant,
                 soil_moisture_level, cancel_requested, task, enablePending,
                 enableCalls, waterCalls, optimisation_data,
                 optimisation_data_collected, saved, postponedWater, lastEval, lastApply,
                 race>>
  /\ tick' = NoTick
  /\ lastRet' = NoRet
  /\ lastLoop' = NoLoop
  /\ lastCollect' = NoCollect

\* After time.sleep(2): the cancellation test; add_water is called unless
\* cancellation was requested.
PumpWake(t) ==
  /\ thread[t].pc = "sleep"
  /\ IF ShouldAddWater(cancel_requested)
       THEN thread' = [thread EXCEPT ![t].pc = "add", ![t].n = @ + 1]
       ELSE thread' = [thread EXCEPT ![t].pc = "check", ![t].n = @ + 1]
  /\ UNCHANGED <<status, enabled, system_enabled, cancelRequested, cfg,
                 plant, soil_moisture_level, is_on, cancel_requested, task,
                 enablePending, enableCalls, waterCalls, optimisation_data,
                 optimisation_data_collected, saved, postponedWater,
                 lastEval, lastApply,
                 race>>
  /\ tick' = NoTick
  /\ lastRet' = NoRet
  /\ lastLoop' = NoLoop
  /\ lastCollect' = NoCollect

\* Pump.add_water up to its increment: nothing is added, and nothing
\* clamped, when the pump is off.
PumpAddWater(t) ==
  /\ thread[t].pc = "add"
  /\ IF is_on
       THEN /\ soil_moisture_level' = add_water_increment(soil_moisture_level)
            /\ thread' = [thread EXCEPT ![t].pc = "clamp"]
       ELSE /\ thread' = [thread EXCEPT ![t].pc = "check"]
            /\ UNCHANGED soil_moisture_level
  /\ UNCHANGED <<status, enabled, system_enabled, cancelRequested, cfg,
                 plant, is_on, cancel_requested, task, enablePending,
                 enableCalls, waterCalls, optimisation_data,
                 optimisation_data_collected, saved, postponedWater,
                 lastEval, lastApply,
                 race>>
  /\ tick' = NoTick
  /\ lastRet' = NoRet
  /\ lastLoop' = NoLoop
  /\ lastCollect' = NoCollect

\* add_water's clamp at 1.0.
PumpClamp(t) ==
  /\ thread[t].pc = "clamp"
  /\ soil_moisture_level' = add_water_clamp(soil_moisture_level)
  /\ thread' = [thread EXCEPT ![t].pc = "check"]
  /\ UNCHANGED <<status, enabled, system_enabled, cancelRequested, cfg,
                 plant, is_on, cancel_requested, task, enablePending,
                 enableCalls, waterCalls, optimisation_data,
                 optimisation_data_collected, saved, postponedWater,
                 lastEval, lastApply,
                 race>>
  /\ tick' = NoTick
  /\ lastRet' = NoRet
  /\ lastLoop' = NoLoop
  /\ lastCollect' = NoCollect

\* ------------------------------------------------------- System.run_loop
\* The call expression written with `await`: the provider's result itself.
WeatherCallAwaited(result) == result

\* The value monitor_plant gets from a weather-provider call expression:
\* both are written without `await`.
WeatherCall(result) == CallWithoutAwait(result)

WeatherPostponement(h) ==
  [postponed |-> TRUE, postponedAt |-> now_AEST(h),
   postponedBy |-> "Weather Detection"]

\* The run_loop task t ends.
EndLoop(t, how) ==
  /\ task' = [task EXCEPT ![t] = NoTask]
  /\ lastLoop' = [how |-> how]
  /\ UNCHANGED <<status, enabled, is_on, cancel_requested, thread>>
  /\ lastRet' = NoRet

\* One evaluation of `while self.enabled:` followed, when it holds, by
\* monitor_plant up to its first sleep.  Reading an unset self.enabled and
\* an exception out of monitor_plant both end the task.  h is the clock
\* reading and wx the weather provider's state at this tick.
RunLoopStep(t) ==
  /\ task[t].kind = "loop"
  /\ task[t].pc = "loop_head"
  /\ IF enabled = "unset"
       THEN /\ EndLoop(t, "AttributeError")
            /\ tick' = NoTick
            /\ UNCHANGED postponedWater
     ELSE IF enabled = "False"
       THEN /\ EndLoop(t, "exited")
            /\ tick' = NoTick
            /\ UNCHANGED postponedWater
     ELSE \E h \in Hours, wx \in WeatherStates :
       LET o == monitor_plant(cfg, now_AEST(h),
                              WeatherCall(get_sunrise_sunset_times(wx)),
                              WeatherCall(get_precipitation_data(wx)),
                              plant, soil_moisture_level)
       IN /\ postponedWater' =
               IF o.kind = "postpone" THEN WeatherPostponement(h)
               ELSE postponedWater
          /\ tick' = TickRecord(cfg, h, wx, soil_moisture_level,
                                 ComputesLevels(
                                   WeatherCall(get_sunrise_sunset_times(wx)),
                                   WeatherCall(get_precipitation_data(wx)),
                                   plant),
                                 o, postponedWater, postponedWater')
          /\ IF o.kind = "raise"
               THEN EndLoop(t, "tick_raised")
             ELSE IF o.kind = "water"
               THEN /\ WaterLoopHead(t, [task[t] EXCEPT !.target = o.target,
                                           !.cycles = 0, !.cancelSeen = FALSE])
                    /\ lastLoop' = NoLoop
             ELSE /\ lastLoop' = NoLoop
                  /\ lastRet' = NoRet
                  /\ UNCHANGED <<task, status, enabled, is_on,
                                 cancel_requested, thread>>
  /\ UNCHANGED <<system_enabled, cancelRequested, cfg, plant,
                 soil_moisture_level, enablePending, enableCalls, waterCalls,
                 optimisation_data, optimisation_data_collected,
                 saved, lastEval, lastApply,
                 race>>
  /\ lastCollect' = NoCollect

\* ------------------------------------------------------------------ Next
Next ==
  \/ Initialize(StoredSettings)
  \/ EnableSystemCall
  \/ EnableSystemResume
  \/ DisableSystem
  \/ RequestCancel
  \/ WaterPlantCall(MaxWaterCalls, Targets)
  \/ \E t \in TaskIds : RunLoopStep(t)
  \/ \E t \in TaskIds : WaterWake(t)
  \/ \E t \in TaskIds : CollectWake(t)
  \/ \E t \in TaskIds : PumpCheck(t)
  \/ \E t \in TaskIds : PumpWake(t)
  \/ \E t \in TaskIds : PumpAddWater(t)
  \/ \E t \in TaskIds : PumpClamp(t)

Spec == Init /\ [][Next]_vars

\* ------------------------------------------------- the watering subsystem
\* The program with enable_system never called and up to MaxWaterCallers
\* overlapping water_plant calls.
NextWater ==
  \/ Initialize(StoredSettings)
  \/ DisableSystem
  \/ RequestCancel
  \/ WaterPlantCall(MaxWaterCallers, Targets)
  \/ \E t \in TaskIds : RunLoopStep(t)
  \/ \E t \in TaskIds : WaterWake(t)
  \/ \E t \in TaskIds : CollectWake(t)
  \/ \E t \in TaskIds : PumpCheck(t)
  \/ \E t \in TaskIds : PumpWake(t)
  \/ \E t \in TaskIds : PumpAddWater(t)
  \/ \E t \in TaskIds : PumpClamp(t)

SpecWater == Init /\ [][NextWater]_vars

\* A started _run_pump thread is scheduled by the operating system until it
\* ends, and the event loop runs every coroutine whose sleep has elapsed.
PumpThreadStep ==
  \E t \in TaskIds :
    PumpCheck(t) \/ PumpWake(t) \/ PumpAddWater(t) \/ PumpClamp(t)

CoroutineStep ==
  \E t \in TaskIds : RunLoopStep(t) \/ WaterWake(t) \/ CollectWake(t)

FairSpecWater ==
  SpecWater /\ WF_vars(PumpThreadStep) /\ WF_vars(CoroutineStep)

\* --------------------------------- Optimisation.evaluate_optimisation alone
\* The ratios a sample sequence is drawn from: water_cycle_length / increase
\* for several cycle lengths and increases.
SampleRatios == { Ratio(4, 1), Ratio(41, 10), Ratio(5, 1), Ratio(10, 3) }

RECURSIVE SeqsUpTo(_, _)
SeqsUpTo(S, n) ==
  IF n = 0 THEN { <<>> }
  ELSE LET shorter == SeqsUpTo(S, n - 1)
       IN shorter \cup { Append(q, x) : q \in shorter, x \in S }

\* A validated ratio saved by an earlier evaluation.
SavedEarlier == [valid |-> TRUE, value |-> Ratio(7, 2)]

\* An Optimisation object holding any sample sequence of up to MaxSamples
\* ratios, over a store that holds a validated ratio or none.
InitEval ==
  /\ status = "DISABLED"
  /\ enabled = "unset"
  /\ system_enabled = FALSE
  /\ cancelRequested = FALSE
  /\ cfg = DefaultSettings
  /\ plant = TRUE
  /\ soil_moisture_level = DefaultSettings.desired_soil_moisture * Scale
  /\ is_on = FALSE
  /\ cancel_requested = FALSE
  /\ thread = [t \in TaskIds |-> NoThread]
  /\ task = [t \in TaskIds |-> NoTask]
  /\ enablePending = 0
  /\ enableCalls = 0
  /\ waterCalls = 0
  /\ optimisation_data \in SeqsUpTo(SampleRatios, MaxSamples)
  /\ optimisation_data_collected = Len(optimisation_data)
  /\ saved \in {NotSaved, SavedEarlier}
  /\ postponedWater = NotPostponed
  /\ tick = NoTick
  /\ lastRet = NoRet
  /\ lastLoop = NoLoop
  /\ lastCollect = NoCollect
  /\ lastEval = NoEval
  /\ lastApply = NoApply
  /\ race = NoRace

\* await self.evaluate_optimisation(), called on the object directly.
EvaluateCall ==
  /\ ~lastEval.called
  /\ LET r == evaluate_optimisation(optimisation_data, saved)
     IN /\ optimisation_data' = r.data
        /\ saved' = r.store
        /\ lastEval' = [called |-> TRUE, data |-> optimisation_data,
                        before |-> saved, raised |-> r.raised]
  /\ UNCHANGED <<status, enabled, system_enabled, cancelRequested, cfg, plant,
                 soil_moisture_level, is_on, cancel_requested, thread, task,
                 enablePending, enableCalls, waterCalls,
                 optimisation_data_collected, postponedWater, tick, lastRet,
                 lastLoop, lastCollect, lastApply, race>>

NextEval == EvaluateCall

SpecEval == InitEval /\ [][NextEval]_vars

\* ------------------------------------ the decision lines of monitor_plant
\* Moisture values the pump can produce from an empty pot.
Levels == {0, WaterIncrement, 2 * WaterIncrement, 3 * WaterIncrement}

\* Settings records for which the decision lines are examined: the stored
\* records, records with the danger mode off, with a desired moisture low
\* enough for the levels to lie on both sides of the trigger level, and with
\* the percentages at the ends of [0, 100].
DecisionSettings ==
  StoredSettings \cup
  { [DefaultSettings EXCEPT !.danger_mode_enabled = FALSE],
    [DefaultSettings EXCEPT !.danger_mode_enabled = FALSE,
                            !.operating_settings_desired_moisture_level = 4],
    [DefaultSettings EXCEPT !.danger_mode_enabled = FALSE,
                            !.operating_hours_mode = "manual",
                            !.operating_settings_desired_moisture_level = 4],
    [DefaultSettings EXCEPT !.danger_mode_enabled = FALSE,
                            !.operating_hours_mode = "always"],
    [DefaultSettings EXCEPT !.operating_settings_water_threshold = 100,
                            !.danger_mode_level = 100,
                            !.operating_settings_desired_moisture_level = 4],
    [DefaultSettings EXCEPT !.operating_settings_water_threshold = 0,
                            !.danger_mode_level = 0],
    [DefaultSettings EXCEPT !.operating_settings_desired_moisture_level = 0] }

\* What the lines of monitor_plant decide when handed the provider's results
\* themselves.
DecisionOnResults(c, h, wx, level) ==
  monitor_plant(c, now_AEST(h), get_sunrise_sunset_times(wx),
                get_precipitation_data(wx), TRUE, level)

\* A System with any of the settings records and a plant at any of the
\* levels.
InitDecision ==
  /\ status = "IDLE"
  /\ enabled = "True"
  /\ system_enabled = TRUE
  /\ cancelRequested = FALSE
  /\ cfg \in DecisionSettings
  /\ plant = TRUE
  /\ soil_moisture_level \in Levels
  /\ is_on = FALSE
  /\ cancel_requested = FALSE
  /\ thread = [t \in TaskIds |-> NoThread]
  /\ task = [t \in TaskIds |-> NoTask]
  /\ enablePending = 0
  /\ enableCalls = 0
  /\ waterCalls = 0
  /\ optimisation_data = <<>>
  /\ optimisation_data_collected = 0
  /\ saved = NotSaved
  /\ postponedWater = NotPostponed
  /\ tick = NoTick
  /\ lastRet = NoRet
  /\ lastLoop = NoLoop
  /\ lastCollect = NoCollect
  /\ lastEval = NoEval
  /\ lastApply = NoApply
  /\ race = NoRace

\* One evaluation of monitor_plant's lines on the provider's results, at the
\* clock reading h and the weather state wx: the levels it computes, the
\* branch it takes and its write of postponedWater.  The water_plant call a
\* watering branch ends in is the subject of Spec and SpecWater.
DecideTick ==
  /\ \E h \in Hours, wx \in WeatherStates :
       LET o == DecisionOnResults(cfg, h, wx, soil_moisture_level)
       IN /\ postponedWater' =
               IF o.kind = "postpone" THEN WeatherPostponement(h)
               ELSE postponedWater
          /\ tick' = TickRecord(cfg, h, wx, soil_moisture_level,
                                 ComputesLevels(get_sunrise_sunset_times(wx),
                                                get_precipitation_data(wx),
                                                TRUE),
                                 o, postponedWater, postponedWater')
  /\ UNCHANGED <<status, enabled, system_enabled, cancelRequested, cfg, plant,
                 soil_moisture_level, is_on, cancel_requested, thread, task,
                 enablePending, enableCalls, waterCalls, optimisation_data,
                 optimisation_data_collected, saved, lastRet, lastLoop,
                 lastCollect, lastEval, lastApply,
                 race>>

\* System.fetch_settings applies another settings record between two
\* evaluations.
FetchSettings ==
  /\ \E c \in DecisionSettings : c # cfg /\ cfg' = c
  /\ tick' = NoTick
  /\ UNCHANGED <<status, enabled, system_enabled, cancelRequested, plant,
                 soil_moisture_level, is_on, cancel_requested, thread, task,
                 enablePending, enableCalls, waterCalls, optimisation_data,
                 optimisation_data_collected, saved, postponedWater, lastRet,
                 lastLoop, lastCollect, lastEval, lastApply,
                 race>>

NextDecision == DecideTick \/ FetchSettings

SpecDecision == InitDecision /\ [][NextDecision]_vars

\* ------------------------------------- watering to the decision's targets
\* The settings as System.__init__ has them (initialize then creates the
\* plant at desired_soil_moisture = 100), with an empty pot, and with a
\* stored desired_soil_moisture of 30, between the two targets.
ScaleSettings ==
  { DefaultSettings,
    [DefaultSettings EXCEPT !.desired_soil_moisture = 0,
                            !.water_cycle_length = 2],
    [DefaultSettings EXCEPT !.desired_soil_moisture = 30,
                            !.water_cycle_length = 2] }

\* The targets monitor_plant passes to water_plant under the default
\* settings: triggerAt and danger_mode_bypass_water_percentage.
DecisionTargets ==
  { TriggerAt(DefaultSettings),
    DefaultSettings.danger_mode_bypass_water_percentage * Scale }

\* water_plant called with the decision's targets, nothing cancelling or
\* disabling from outside.
NextScale ==
  \/ Initialize(ScaleSettings)
  \/ WaterPlantCall(MaxWaterCallers, DecisionTargets)
  \/ \E t \in TaskIds : WaterWake(t)
  \/ \E t \in TaskIds : CollectWake(t)
  \/ \E t \in TaskIds : PumpCheck(t)
  \/ \E t \in TaskIds : PumpWake(t)
  \/ \E t \in TaskIds : PumpAddWater(t)
  \/ \E t \in TaskIds : PumpClamp(t)

SpecScale == Init /\ [][NextScale]_vars

\* ================================================================ properties
\* The time h is outside the operating hours of the settings c.
OutsideHours(c, h, wx) ==
  \/ /\ c.operating_hours_mode = "auto"
     /\ wx.available
     /\ (h < wx.sunrise \/ h > wx.sunset)
  \/ /\ c.operating_hours_mode = "manual"
     /\ (h < c.operating_hours_start \/ h > c.operating_hours_end)

\* The time h is inside the operating hours of the settings c.
InsideHours(c, h, wx) ==
  \/ /\ c.operating_hours_mode = "auto"
     /\ wx.available
     /\ wx.sunrise <= h /\ h <= wx.sunset
  \/ /\ c.operating_hours_mode = "manual"
     /\ c.operating_hours_start <= h /\ h <= c.operating_hours_end
  \/ c.operating_hours_mode \notin {"auto", "manual"}

\* C1: in every tick in which danger mode and danger bypass are enabled and
\* the moisture is at or below the danger level, the tick calls water_plant
\* with the danger bypass percentage as its target, whatever the operating
\* hours mode, the time of day and the weather are.
C1_DangerOverrideFirst ==
  (tick.evaluated /\ DangerApplies(cfg, tick.level))
    => tick.outcome = Water(cfg.danger_mode_bypass_water_percentage * Scale)

\* For every settings record, hour, weather state and moisture level: outside
\* the operating hours and without danger override the decision lines give
\* neither watering nor a postponement.
OutsideHoursDecisionSkips ==
  \A c \in DecisionSettings, h \in Hours, wx \in WeatherStates,
     level \in Levels :
    (OutsideHours(c, h, wx) /\ ~DangerApplies(c, level))
      => DecisionOnResults(c, h, wx, level).kind \notin {"water", "postpone"}

\* C2: a tick evaluated outside the operating hours (auto: outside
\* [sunrise, sunset]; manual: outside [start, end]) in which the danger
\* override does not apply calls no water_plant, so starts no pump run, and
\* leaves the postponement record as it was; the decision lines of
\* monitor_plant give neither watering nor a postponement for such a tick,
\* whatever the moisture and the weather are.
C2_OutsideHoursNoAction ==
  /\ (/\ tick.evaluated
      /\ OutsideHours(cfg, tick.now, tick.wx)
      /\ ~DangerApplies(cfg, tick.level))
       => /\ tick.outcome.kind # "water"
          /\ tick.after = tick.before
          /\ postponedWater = tick.before
  /\ OutsideHoursDecisionSkips

\* A tick outside the operating hours without danger override has happened.
C2_Witness ==
  /\ tick.evaluated
  /\ OutsideHours(cfg, tick.now, tick.wx)
  /\ ~DangerApplies(cfg, tick.level)
  /\ postponedWater = tick.before

\* C3: with weather detection enabled, inside the operating hours, the
\* moisture at or below the trigger level and no danger override, a tick
\* records the postponement {postponed, postponedAt = now, postponedBy =
\* "Weather Detection"} and starts no watering exactly when the rain
\* condition of the configured mode holds; otherwise it waters to the trigger
\* level and writes no postponement.
C3_WeatherPostponement ==
  (/\ tick.evaluated
   /\ cfg.weather_detection_enabled
   /\ tick.wx.available
   /\ InsideHours(cfg, tick.now, tick.wx)
   /\ tick.level <= TriggerAt(cfg)
   /\ ~DangerApplies(cfg, tick.level))
    => IF RainCondition(cfg, tick.wx.mmOfRainfall, tick.wx.rainfallProbability)
         THEN /\ tick.outcome = Postpone
              /\ tick.after = WeatherPostponement(tick.now)
         ELSE /\ tick.outcome = Water(TriggerAt(cfg))
              /\ tick.after = tick.before

\* C4: when the cancellation flag was set while water_plant was running a
\* cycle, water_plant returns at the end of that cycle with the system
\* status DISABLED and the pump off.
C4_CancelledAtCycleBoundary ==
  (lastRet.how # "none" /\ lastRet.cancelSeen)
    => lastRet.status = "DISABLED" /\ ~lastRet.pumpOn

\* C5: when a step inside water_plant fails, water_plant returns to its
\* caller with the status DISABLED and the enabled flag false, a pump that
\* is on has its cancellation requested, and a pump whose cancellation is
\* requested is eventually off.
C5_FailureDisables ==
  /\ [](lastRet.how = "failed"
          => /\ lastRet.status = "DISABLED"
             /\ lastRet.enabled = "False"
             /\ (lastRet.pumpOn => lastRet.pumpCancel))
  /\ ((is_on /\ cancel_requested) ~> ~is_on)

\* A water_plant call has failed while the pump, run by another call's
\* cycle, was on.
C5_Witness ==
  lastRet.how = "failed" /\ lastRet.pumpOn /\ lastRet.pumpCancel

\* A monitor_plant evaluation of task t is in progress: suspended in the
\* water_plant it awaits.
InProgress(t) ==
  task[t].kind = "loop" /\ task[t].pc \in {"wp_sleep", "cd_sleep"}

C7_LoopRunsUntilDisabled ==
  lastLoop.how # "none" => (lastLoop.how = "exited" /\ status = "DISABLED")

\* C8: calling disable_system twice in succession leaves the state one call
\* leaves: status DISABLED, enabled flag false, and the pump's cancellation
\* requested by the call exactly when the pump was on.
C8_DisableIdempotent ==
  LET once == disable_system(Sys)
      twice == disable_system(once)
  IN /\ twice = once
     /\ once.status = "DISABLED"
     /\ once.enabled = "False"
     /\ (is_on => once.cancel_requested)
     /\ (~is_on => once.cancel_requested = cancel_requested)
     /\ once.is_on = is_on

\* disable_system has run while the pump was on.
C8_Witness ==
  /\ status = "DISABLED"
  /\ enabled = "False"
  /\ is_on
  /\ cancel_requested

\* 20 * |x - mean| <= mean for every sample x, over the integers.
C9_AllWithinTolerance(data) ==
  LET mean == Average(data)
  IN \A i \in 1..Len(data) :
       ToleranceDen * Abs(data[i][1] * mean[2] - mean[1] * data[i][2])
         <= mean[1] * data[i][2]

\* C9: evaluate_optimisation leaves the sample sequence unchanged, and the
\* store holds the mean of the samples as the validated ratio afterwards if
\* every sample deviates from the mean by at most 0.05 * mean; otherwise
\* the store holds what it held before.
C9_EvaluatePersistsIffConsistent ==
  lastEval.called
    => /\ optimisation_data = lastEval.data
       /\ IF Len(lastEval.data) > 0 /\ C9_AllWithinTolerance(lastEval.data)
            THEN saved = [valid |-> TRUE, value |-> Average(lastEval.data)]
            ELSE saved = lastEval.before

\* An evaluation of two or more samples, not all equal, has saved their mean.
C9_Witness ==
  /\ lastEval.called
  /\ Len(lastEval.data) >= 2
  /\ \E i \in 1..Len(lastEval.data) : lastEval.data[i] # lastEval.data[1]
  /\ saved.valid
  /\ saved # lastEval.before

\* C10: a collect_data call that observes an increase <= 0 leaves the sample
\* sequence and the collected count unchanged and does not call
\* evaluate_optimisation.
C10_NoIncreaseNoSample ==
  (lastCollect.called /\ lastCollect.increase <= 0)
    => ~lastCollect.changed /\ ~lastCollect.evaluated

\* A collect_data call has observed no increase.
C10_Witness ==
  lastCollect.called /\ lastCollect.increase <= 0 /\ ~lastCollect.changed

\* C11: when the weather provider has no data, a tick inside the operating
\* hours with the moisture at or below the trigger level (and no danger
\* override) waters to the trigger level, writes no postponement and does
\* not end the monitor loop with an exception.
C11_NoWeatherDataWaters ==
  (/\ tick.evaluated
   /\ ~tick.wx.available
   /\ InsideHours(cfg, tick.now, tick.wx)
   /\ tick.level <= TriggerAt(cfg)
   /\ ~DangerApplies(cfg, tick.level))
    => /\ tick.outcome = Water(TriggerAt(cfg))
       /\ tick.after = tick.before

\* The percentages of the settings c are in [0, 100] and its desired
\* moisture is not negative.
PercentagesInRange(c) ==
  /\ c.operating_settings_water_threshold \in 0..100
  /\ c.danger_mode_level \in 0..100
  /\ c.operating_settings_desired_moisture_level >= 0

\* C12: the trigger level and the danger level a tick computes are the
\* shares water_threshold/100 and danger_mode_level/100 of the desired
\* moisture of the settings in force at that tick, and with the percentages
\* in [0, 100] neither exceeds the desired moisture.
C12_LevelsWithinDesired ==
  tick.levels
    => /\ tick.triggerAt * 100 =
            cfg.operating_settings_water_threshold
              * cfg.operating_settings_desired_moisture_level * Scale
       /\ tick.dangerAt * 100 =
            cfg.danger_mode_level
              * cfg.operating_settings_desired_moisture_level * Scale
       /\ PercentagesInRange(cfg)
            => /\ tick.triggerAt
                    <= cfg.operating_settings_desired_moisture_level * Scale
               /\ tick.dangerAt
                    <= cfg.operating_settings_desired_moisture_level * Scale

\* A tick has computed its levels with water_threshold = 100 and a positive
\* desired moisture: the trigger level equals the desired moisture.
C12_Witness ==
  /\ tick.levels
  /\ cfg.operating_settings_water_threshold = 100
  /\ cfg.operating_settings_desired_moisture_level > 0
  /\ tick.triggerAt = cfg.operating_settings_desired_moisture_level * Scale

\* C13: with no cancellation requested, the collect_data call that follows
\* a cycle whose reading is below the target is followed by the next pump
\* cycle, not by the end of water_plant; water_plant ends only on a reading
\* at or above the target.
C13_CollectThenNextCycle ==
  (lastCollect.called /\ ~cancelRequested)
    => \/ lastRet.how = "none"
       \/ lastRet.how = "completed" /\ lastRet.reading >= lastRet.target

\* C14: a water_plant call for a target of the decision step, with nothing
\* cancelling, returns only after reading a moisture at or above its
\* target.
C14_WateringReachesTarget ==
  lastRet.how # "none"
    => lastRet.how = "completed" /\ lastRet.reading >= lastRet.target

\* C15: once disable_system has been called while a water_plant call is in
\* progress, the cancellation that water_plant tests at its cycle boundary
\* is set.
C15_DisableCancelsWatering ==
  (/\ enabled = "False"
   /\ \E t \in TaskIds : task[t].pc \in {"wp_sleep", "cd_sleep"})
    => cancelRequested

C17_ManualHoursGate ==
  (/\ tick.evaluated
   /\ cfg.operating_hours_mode = "manual"
   /\ cfg.operating_hours_start <= tick.now
   /\ tick.now <= cfg.operating_hours_end
   /\ tick.wx.available
   /\ tick.level <= TriggerAt(cfg)
   /\ ~DangerApplies(cfg, tick.level)
   /\ ~(/\ cfg.weather_detection_enabled
        /\ RainCondition(cfg, tick.wx.mmOfRainfall,
                         tick.wx.rainfallProbability)))
    => tick.outcome = Water(TriggerAt(cfg))

\* C18: once Pump.cancel() has set cancel_requested, and until a new turn_on
\* resets it, a pump run starts no further sub-interval and commits to no
\* further increment: the moisture rises only by the one increment of a run
\* that had passed its cancellation test already; and an active pump whose
\* cancellation is requested reaches the off state.
C18_CancelStopsPumpRun ==
  /\ [][cancel_requested =>
          /\ \A t \in TaskIds :
               /\ thread'[t].pc = "sleep" => thread[t].pc = "sleep"
               /\ thread'[t].pc = "add" => thread[t].pc = "add"
          /\ soil_moisture_level' > soil_moisture_level =>
               \E t \in TaskIds :
                 /\ thread[t].pc = "add"
                 /\ thread'[t].pc = "clamp"
                 /\ soil_moisture_level' =
                      add_water_increment(soil_moisture_level)]_vars
  /\ (is_on /\ cancel_requested) ~> ~is_on

C18_Witness ==
  /\ is_on
  /\ cancel_requested
  /\ \E t \in TaskIds : thread[t].pc = "add"

\* ------------------------------------------- the two writers of the moisture
\* Plant.decrease_soil_moisture (the thread Plant.start() starts) and
\* Pump.add_water (the _run_pump thread) both update Plant.soil_moisture_level
\* with no lock; an augmented assignment is a load, an arithmetic operation
\* and a store, and the threads can be switched between any two of them.
\* This specification takes a plant at a drawn level with its pump on and
\* runs one depletion tick, one pump increment and reads of
\* get_soil_moisture in every interleaving of their statements.
moisture_depletion_rate == 10      \* Plant.moisture_depletion_rate = 0.1

StartLevels == {0, 5, 50, 60, 95, PumpClampMax}

\* What the variables outside the plant keep in these steps.
PlantFrame ==
  UNCHANGED <<status, enabled, system_enabled, cancelRequested, cfg, plant,
              is_on, cancel_requested, thread, task, enablePending,
              enableCalls, waterCalls, optimisation_data,
              optimisation_data_collected, saved, postponedWater, tick,
              lastRet, lastLoop, lastCollect, lastEval, lastApply>>

InitPlant ==
  /\ status = "IDLE"
  /\ enabled = "unset"
  /\ system_enabled = FALSE
  /\ cancelRequested = FALSE
  /\ cfg = DefaultSettings
  /\ plant = TRUE
  /\ soil_moisture_level \in StartLevels
  /\ is_on = TRUE
  /\ cancel_requested = FALSE
  /\ thread = [t \in TaskIds |-> NoThread]
  /\ task = [t \in TaskIds |-> NoTask]
  /\ enablePending = 0
  /\ enableCalls = 0
  /\ waterCalls = 0
  /\ optimisation_data = <<>>
  /\ optimisation_data_collected = 0
  /\ saved = NotSaved
  /\ postponedWater = NotPostponed
  /\ tick = NoTick
  /\ lastRet = NoRet
  /\ lastLoop = NoLoop
  /\ lastCollect = NoCollect
  /\ lastEval = NoEval
  /\ lastApply = NoApply
  /\ race = [NoRace EXCEPT !.start = soil_moisture_level,
                           !.dep = "load", !.inc = "load"]

\* `self.soil_moisture_level -= self.moisture_depletion_rate`: the load.
DepletionLoad ==
  /\ race.dep = "load"
  /\ race' = [race EXCEPT !.dep = "store", !.depValue = soil_moisture_level]
  /\ UNCHANGED soil_moisture_level
  /\ PlantFrame

\* ... and the store of the difference.
DepletionStore ==
  /\ race.dep = "store"
  /\ soil_moisture_level' = race.depValue - moisture_depletion_rate
  /\ race' = [race EXCEPT !.dep = "test"]
  /\ PlantFrame

\* `if self.soil_moisture_level < 0:`
DepletionTest ==
  /\ race.dep = "test"
  /\ race' = [race EXCEPT
                !.dep = IF soil_moisture_level < 0 THEN "clamp" ELSE "done"]
  /\ UNCHANGED soil_moisture_level
  /\ PlantFrame

\* `self.soil_moisture_level = 0`
DepletionClamp ==
  /\ race.dep = "clamp"
  /\ soil_moisture_level' = 0
  /\ race' = [race EXCEPT !.dep = "done"]
  /\ PlantFrame

\* add_water: `if self.is_on:` and the load of
\* `self.plant.soil_moisture_level += 0.5`.
IncrementLoad ==
  /\ race.inc = "load"
  /\ is_on
  /\ race' = [race EXCEPT !.inc = "store", !.incValue = soil_moisture_level]
  /\ UNCHANGED soil_moisture_level
  /\ PlantFrame

\* ... and the store of the sum.
IncrementStore ==
  /\ race.inc = "store"
  /\ soil_moisture_level' = add_water_increment(race.incValue)
  /\ race' = [race EXCEPT !.inc = "test"]
  /\ PlantFrame

\* `if self.plant.soil_moisture_level > 1.0:`
IncrementTest ==
  /\ race.inc = "test"
  /\ race' = [race EXCEPT
                !.inc = IF soil_moisture_level > PumpClampMax
                          THEN "clamp" ELSE "done"]
  /\ UNCHANGED soil_moisture_level
  /\ PlantFrame

\* `self.plant.soil_moisture_level = 1.0`
IncrementClamp ==
  /\ race.inc = "clamp"
  /\ soil_moisture_level' = PumpClampMax
  /\ race' = [race EXCEPT !.inc = "done"]
  /\ PlantFrame

\* Plant.get_soil_moisture(), called while the updates are under way.
GetSoilMoisture ==
  /\ race.dep # "done" \/ race.inc # "done"
  /\ race' = [race EXCEPT !.read = TRUE, !.reading = soil_moisture_level]
  /\ UNCHANGED soil_moisture_level
  /\ PlantFrame

NextPlant ==
  \/ DepletionLoad
  \/ DepletionStore
  \/ DepletionTest
  \/ DepletionClamp
  \/ IncrementLoad
  \/ IncrementStore
  \/ IncrementTest
  \/ IncrementClamp
  \/ GetSoilMoisture

SpecPlant == InitPlant /\ [][NextPlant]_vars

\* One depletion tick as a whole: decrease, then clamp at 0.
DepletionTick(level) ==
  IF level - moisture_depletion_rate < 0
    THEN 0 ELSE level - moisture_depletion_rate

\* One pump increment as a whole: increase, then clamp at the maximum.
PumpIncrement(level) == add_water_clamp(add_water_increment(level))

\* C19: when a depletion tick and a pump increment have both completed, in
\* whatever interleaving, the moisture is the result of applying the two in
\* one of the two serial orders; and no get_soil_moisture call returns a
\* value from the middle of an update, below 0 or above the maximum.
C19_UpdatesSerializable ==
  /\ (race.dep = "done" /\ race.inc = "done")
       => soil_moisture_level \in
            {PumpIncrement(DepletionTick(race.start)),
             DepletionTick(PumpIncrement(race.start))}
  /\ race.read => (0 <= race.reading /\ race.reading <= PumpClampMax)

\* C20: in every state from initialize() on, the plant's moisture lies
\* between 0 and the one maximum at which the pump's increments clamp.
C20_MoistureWithinRange ==
  plant => (0 <= soil_moisture_level /\ soil_moisture_level <= PumpClampMax)

\* C21: a monitor_plant evaluation that leaves the enabled flag true,
\* whatever its outcome (watering, postponement, skip or an error raised
\* inside monitor_plant), does not end the monitor loop: the loop goes on
\* to its next evaluation.
C21_TickFollowedByAnother ==
  (tick.evaluated /\ enabled = "True") => lastLoop.how = "none"

\* The water_plant calls among the calls of a tick.
WaterCalls(calls) == SelectSeq(calls, LAMBDA x : x.kind = "water")

\* C22: a tick executes one branch: it makes at most one call or write, so
\* at most one water_plant call; a tick that writes the postponement record,
\* or skips for the operating hours or because the moisture is above the
\* trigger level, makes no water_plant call and leaves the pump off; and a
\* tick that waters makes exactly the one water_plant call it decided.
C22_OneBranchPerTick ==
  tick.evaluated =>
    /\ Len(tick.calls) <= 1
    /\ Len(WaterCalls(tick.calls)) <= 1
    /\ tick.outcome.kind \in {"postpone", "skip_hours", "no_action"} =>
         /\ WaterCalls(tick.calls) = <<>>
         /\ ~is_on
    /\ tick.outcome.kind = "postpone" => tick.calls = <<Postpone>>
    /\ (tick.levels /\ tick.outcome.kind = "water") =>
         tick.calls = <<tick.outcome>>

\* A tick in which both the danger override and the trigger-level watering
\* apply makes one water_plant call.
C22_Witness ==
  /\ tick.evaluated
  /\ tick.levels
  /\ DangerApplies(cfg, tick.level)
  /\ tick.level <= TriggerAt(cfg)
  /\ Len(tick.calls) = 1
  /\ tick.calls[1].kind = "water"

\* The level initialize() gives the plant: Plant(desired_soil_moisture).
InitialLevel(c) == c.desired_soil_moisture * Scale

\* C23: a collect_data call made after a watering cycle that raised the
\* moisture appends exactly one sample, the cycle length divided by that
\* increase, adds one to the collected count, and evaluates once the count
\* has reached data_points_required.  Stated for the first cycle of the first
\* water_plant call after initialize(), which starts from the level
\* initialize() set: the increase is the post-cycle value passed in minus
\* that level.
C23_CollectAppendsCycleSample ==
  (/\ lastCollect.called
   /\ waterCalls = 1
   /\ lastCollect.cycles = 1
   /\ lastCollect.current_moisture - InitialLevel(cfg) > 0)
    => /\ optimisation_data =
            Append(lastCollect.data,
                   Ratio(lastCollect.water_cycle_length * Scale,
                         lastCollect.current_moisture - InitialLevel(cfg)))
       /\ optimisation_data_collected = lastCollect.collected + 1
       /\ (optimisation_data_collected >= data_points_required
             => lastCollect.evaluated)

\* ------------------------------------------ Optimisation.apply_optimisation
\* apply_optimisation from its first line to the first of: a return, an
\* exception, or the first Pump.turn_on.  Every path passes a call of
\* self.system.add_log_entry first, which System does not define, so every
\* call ends with AttributeError there; the exception is not caught inside
\* apply_optimisation.  s is the System and pump state the call finds.
apply_optimisation(data, cancelRequest, s) ==
  IF data = <<>>
    THEN IF System_has_add_log_entry
           THEN [how |-> "returned", sys |-> s, turn_ons |-> 0]
           ELSE [how |-> "raised", sys |-> s, turn_ons |-> 0]
  ELSE IF cancelRequest
    THEN IF System_has_add_log_entry
           THEN [how |-> "cancelled", sys |-> disable_system(s),
                 turn_ons |-> 0]
           ELSE [how |-> "raised", sys |-> s, turn_ons |-> 0]
  ELSE IF System_has_add_log_entry
    THEN [how |-> "turn_on",
          sys |-> [s EXCEPT !.is_on = TRUE, !.cancel_requested = FALSE],
          turn_ons |-> 1]
    ELSE [how |-> "raised", sys |-> s, turn_ons |-> 0]

\* The longest sample sequence an apply_optimisation call is given.
MaxRecorded == 2

\* A System after initialize(), its plant at any of the levels, holding any
\* sequence of up to MaxRecorded recorded ratios.
InitApply ==
  /\ status = "IDLE"
  /\ enabled = "True"
  /\ system_enabled = TRUE
  /\ cancelRequested = FALSE
  /\ cfg \in StoredSettings
  /\ plant = TRUE
  /\ soil_moisture_level \in Levels
  /\ is_on = FALSE
  /\ cancel_requested = FALSE
  /\ thread = [t \in TaskIds |-> NoThread]
  /\ task = [t \in TaskIds |-> NoTask]
  /\ enablePending = 0
  /\ enableCalls = 0
  /\ waterCalls = 0
  /\ optimisation_data \in SeqsUpTo(SampleRatios, MaxRecorded)
  /\ optimisation_data_collected = Len(optimisation_data)
  /\ saved = NotSaved
  /\ postponedWater = NotPostponed
  /\ tick = NoTick
  /\ lastRet = NoRet
  /\ lastLoop = NoLoop
  /\ lastCollect = NoCollect
  /\ lastEval = NoEval
  /\ lastApply = NoApply
  /\ race = NoRace

\* await optimisation.apply_optimisation(target), called on the object
\* directly with one of the decision's targets.
ApplyOptimisationCall ==
  /\ plant
  /\ ~lastApply.called
  /\ \E target \in DecisionTargets :
       LET r == apply_optimisation(optimisation_data, cancelRequested, Sys)
       IN /\ SetSys(r.sys)
          /\ is_on' = r.sys.is_on
          /\ lastApply' = [called |-> TRUE, target |-> target,
                           hadData |-> optimisation_data # <<>>,
                           cancelSeen |-> cancelRequested,
                           how |-> r.how, turn_ons |-> r.turn_ons]
  /\ UNCHANGED <<system_enabled, cancelRequested, cfg, plant,
                 soil_moisture_level, thread, task, enablePending,
                 enableCalls, waterCalls, optimisation_data,
                 optimisation_data_collected, saved, postponedWater, tick,
                 lastRet, lastLoop, lastCollect, lastEval, race>>

NextApply == ApplyOptimisationCall \/ RequestCancel

SpecApply == InitApply /\ [][NextApply]_vars

\* C24: an apply_optimisation call turns the pump on at most twice; with no
\* recorded ratio it does not turn it on; a call that finds the cancellation
\* flag set turns it on no more, leaves the system DISABLED and returns; a
\* call that finds a recorded ratio and no cancellation ends by signalling
\* completion.
C24_ApplyTwoCyclesOrCancel ==
  lastApply.called =>
    /\ lastApply.turn_ons <= 2
    /\ ~lastApply.hadData => lastApply.turn_ons = 0
    /\ (lastApply.hadData /\ lastApply.cancelSeen) =>
         /\ lastApply.turn_ons = 0
         /\ lastApply.how = "cancelled"
         /\ status = "DISABLED"
    /\ (lastApply.hadData /\ ~lastApply.cancelSeen) =>
         lastApply.how = "completed"

\* No pump run but that of task t is under way.
OnlyRun(t) ==
  \A u \in TaskIds \ {t} : thread[u].pc \in {"none", "done"}

\* C25: an add_water call never lowers the moisture: when a run, alone at
\* the pump, completes an add_water call (its clamp), the level is no lower
\* than it was before that call's increment.
C25_AddWaterNeverLowers ==
  [][\A t \in TaskIds :
       (/\ thread[t].pc = "clamp"
        /\ thread'[t].pc = "check"
        /\ OnlyRun(t))
         => soil_moisture_level' >= soil_moisture_level - WaterIncrement]_vars

\* The tasks whose _run_pump thread is under way.
ActiveRuns ==
  {t \in TaskIds : thread[t].pc \in {"check", "sleep", "add", "clamp"}}

\* C26: at most one pump run is active at any time.
C26_OnePumpRunAtATime == Cardinality(ActiveRuns) <= 1

====
